---- MODULE Spec2Model ----
(***************************************************************************)
(* Cost-estimate core of jacksonville_addition_estimator_ui.tsx:           *)
(* calcTotals, tradesToLineItems and the derived totals (baseTotals,       *)
(* mergedItems, mergedTotals, viewTotals) of RailViharAdditionEstimator.   *)
(*                                                                         *)
(* Numbers.  A JavaScript number is an IEEE-754 binary64: every result of  *)
(* +, * and / is the exact result rounded to the nearest representable     *)
(* value, ties to even.  The model keeps that rule and scales the format   *)
(* down: a number is an integer count of quanta of 2^-FracBits, and a      *)
(* representable number has at most Precision significant bits.            *)
(*                                                                         *)
(* Specifications.  CalcSpec applies the functions to inputs drawn from    *)
(* small pools.  Spec is the component from its first render on: the seed  *)
(* items and trades, the onChange handlers of the cost panel, exportCSV,   *)
(* and the hero video (the effect's fetch, onSelectVideo, the video        *)
(* element's onError); LiveSpec adds that the effect's promises settle.    *)
(* Left out, as nothing modelled reads them: the self-test effect and its  *)
(* testResults, the display state of the animated numbers, and unmounting. *)
(***************************************************************************)
EXTENDS Integers, Sequences, FiniteSets, TLC

\* ---------------------------------------------------------------- numbers

\* Significant bits of the scaled-down number format (binary64 has 53).
Precision == 13
\* Fractional bits: the quantum is 2^-FracBits.
FracBits == 3

RECURSIVE Pow2(_)
Pow2(n) == IF n = 0 THEN 1 ELSE 2 * Pow2(n - 1)

\* Quanta in 1.0.
One == Pow2(FracBits)
\* Mantissas are below Limit.
Limit == Pow2(Precision)

Abs(n) == IF n < 0 THEN -n ELSE n

\* The spacing of representable numbers around the magnitude n / den.
RECURSIVE Ulp(_, _, _)
Ulp(n, den, step) == IF n < den * Limit * step THEN step ELSE Ulp(n, den, 2 * step)

\* n / den (n >= 0, den > 0) rounded to the nearest multiple of step, ties to
\* the even multiple.
RoundToStep(n, den, step) ==
    LET d  == den * step
        q  == n \div d
        r  == n % d
        up == (2 * r > d) \/ (2 * r = d /\ q % 2 = 1)
    IN  (IF up THEN q + 1 ELSE q) * step

\* The exact rational num / den (in quanta, den > 0) rounded to the nearest
\* representable number, ties to even.  (num and the spacing are bound by the
\* set constructor, so each is evaluated once.)
RoundRat(num, den) ==
    CHOOSE m \in { IF x < 0 THEN -RoundToStep(-x, den, step) ELSE RoundToStep(x, den, step) :
                   <<x, step>> \in { <<y, Ulp(Abs(y), den, 1)>> : y \in {num} } } : TRUE

\* A numeric literal or typed-in value v (an integer), as a number.
Num(v) == RoundRat(v * One, 1)

\* a + b, a * b and a / 100 of the source.
Add(a, b) == RoundRat(a + b, 1)
Mul(a, b) == RoundRat(a * b, One)
Hundred == 100
DivHundred(a) == RoundRat(a, Hundred)

\* ------------------------------------------------------------- data model

Bands == {"low", "mid", "high"}
UnitKinds == {"SF", "LF", "EA", "ALW"}
ApplyModes == {"HARD_ONLY", "HARD_PLUS_PERMITS_OTHERS"}

\* type Range = { low, mid, high }, from three typed-in values.
Range(l, m, h) == [low |-> Num(l), mid |-> Num(m), high |-> Num(h)]

\* type LineItem = { key, label, sf, unit }.
LineItem(k, lbl, q, u) == [key |-> k, label |-> lbl, sf |-> q, unit |-> u]

\* type TradeItem = { key, label, qty, unitKind, unit }.
TradeItem(k, lbl, q, kind, u) ==
    [key |-> k, label |-> lbl, qty |-> q, unitKind |-> kind, unit |-> u]

\* --------------------------------------------------------- pure functions

\* Faulty variant of hardReduce: the mid band is costed with the low unit cost.
RECURSIVE hardReduce_CrossBand(_, _)
hardReduce_CrossBand(its, acc) ==
    IF its = <<>> THEN acc
    ELSE CHOOSE r \in { hardReduce_CrossBand(rest, next) : <<rest, next>> \in
            { << Tail(its),
                 [low  |-> Add(acc.low, Mul(it.sf, it.unit.low)),
                  mid  |-> Add(acc.mid, Mul(it.sf, it.unit.low)),
                  high |-> Add(acc.high, Mul(it.sf, it.unit.high))] >> :
              it \in {Head(its)} } } : TRUE

\* Faulty variant of hardReduce: a negative contribution is clamped to zero.
RECURSIVE hardReduce_Clamped(_, _)
hardReduce_Clamped(its, acc) ==
    IF its = <<>> THEN acc
    ELSE CHOOSE r \in { hardReduce_Clamped(rest, next) : <<rest, next>> \in
            { << Tail(its),
                 [b \in Bands |->
                    Add(acc[b], IF Mul(it.sf, it.unit[b]) < 0 THEN 0
                                ELSE Mul(it.sf, it.unit[b]))] >> :
              it \in {Head(its)} } } : TRUE

\* items.reduce(...) of calcTotals: the accumulator after the items, in order.
\* (The item, the rest and the next accumulator are bound by set constructors,
\* so each is evaluated once.)
RECURSIVE hardReduce(_, _)
hardReduce(its, acc) ==
    IF its = <<>> THEN acc
    ELSE CHOOSE r \in { hardReduce(rest, next) : <<rest, next>> \in
            { << Tail(its),
                 [low  |-> Add(acc.low, Mul(it.sf, it.unit.low)),
                  mid  |-> Add(acc.mid, Mul(it.sf, it.unit.mid)),
                  high |-> Add(acc.high, Mul(it.sf, it.unit.high))] >> :
              it \in {Head(its)} } } : TRUE

\* { low: 0, mid: 0, high: 0 }
ZeroRange == [low |-> 0, mid |-> 0, high |-> 0]

\* The fees and the all-in total of calcTotals and viewTotals, from hard and the
\* percentage base (shared by the faulty variants below).
TotalsFrom(hard, base, ae_pct, cont_pct, perm, other) ==
    LET ae    == [b \in Bands |-> Mul(DivHundred(ae_pct[b]), base[b])]
        cont  == [b \in Bands |-> Mul(DivHundred(cont_pct[b]), base[b])]
        allIn == [b \in Bands |->
                    Add(Add(Add(Add(hard[b], ae[b]), cont[b]), perm[b]), other[b])]
    IN  [hard |-> hard, ae |-> ae, cont |-> cont, allIn |-> allIn]

\* Faulty variant of calcTotals: the percentages are taken of hard + permits + other.
calcTotals_AllowancesInBase(its, ae_pct, cont_pct, perm, other) ==
    LET hard == hardReduce(its, ZeroRange)
        base == [b \in Bands |-> Add(Add(hard[b], perm[b]), other[b])]
    IN  TotalsFrom(hard, base, ae_pct, cont_pct, perm, other)

\* Faulty variant of calcTotals: allIn leaves the other allowances out.
calcTotals_NoOther(its, ae_pct, cont_pct, perm, other) ==
    LET hard == hardReduce(its, ZeroRange)
        t    == TotalsFrom(hard, hard, ae_pct, cont_pct, perm, other)
    IN  [t EXCEPT !.allIn = [b \in Bands |->
                    Add(Add(Add(hard[b], t.ae[b]), t.cont[b]), perm[b])]]

\* Faulty variant of calcTotals: the reduce starts from 1 instead of 0.
calcTotals_SeedOne(its, ae_pct, cont_pct, perm, other) ==
    LET hard == hardReduce(its, [low |-> Num(1), mid |-> Num(1), high |-> Num(1)])
    IN  TotalsFrom(hard, hard, ae_pct, cont_pct, perm, other)

calcTotals(its, ae_pct, cont_pct, perm, other) ==
    LET hard  == hardReduce(its, ZeroRange)
        ae    == [low  |-> Mul(DivHundred(ae_pct.low), hard.low),
                  mid  |-> Mul(DivHundred(ae_pct.mid), hard.mid),
                  high |-> Mul(DivHundred(ae_pct.high), hard.high)]
        cont  == [low  |-> Mul(DivHundred(cont_pct.low), hard.low),
                  mid  |-> Mul(DivHundred(cont_pct.mid), hard.mid),
                  high |-> Mul(DivHundred(cont_pct.high), hard.high)]
        allIn == [low  |-> Add(Add(Add(Add(hard.low, ae.low), cont.low), perm.low), other.low),
                  mid  |-> Add(Add(Add(Add(hard.mid, ae.mid), cont.mid), perm.mid), other.mid),
                  high |-> Add(Add(Add(Add(hard.high, ae.high), cont.high), perm.high), other.high)]
    IN  [hard |-> hard, ae |-> ae, cont |-> cont, allIn |-> allIn]

\* `trade:${t.key}`
TradeKey(k) == "trade:" \o k

\* Faulty variant of tradesToLineItems: an allowance (ALW) trade counts as quantity 1.
tradesToLineItems_KindScaled(ts) ==
    [i \in 1..Len(ts) |->
        [key |-> TradeKey(ts[i].key), label |-> ts[i].label,
         sf |-> IF ts[i].unitKind = "ALW" THEN Num(1) ELSE ts[i].qty, unit |-> ts[i].unit]]

tradesToLineItems(ts) ==
    [i \in 1..Len(ts) |->
        [key |-> TradeKey(ts[i].key), label |-> ts[i].label, sf |-> ts[i].qty, unit |-> ts[i].unit]]

\* Faulty variant of MergeItems: the converted trades come first.
MergeItems_TradesFirst(its, ts) == tradesToLineItems(ts) \o its

\* [...items, ...tradesToLineItems(trades)]
MergeItems(its, ts) == its \o tradesToLineItems(ts)

\* Faulty variant of ViewTotals: the two apply modes are swapped.
ViewTotals_ModesSwapped(merged_totals, mode, ae_pct, cont_pct, perm, other) ==
    LET hard == merged_totals.hard
        base == IF mode = "HARD_ONLY"
                THEN [b \in Bands |-> Add(Add(hard[b], perm[b]), other[b])]
                ELSE hard
    IN  TotalsFrom(hard, base, ae_pct, cont_pct, perm, other)

\* Faulty variant of ViewTotals: allIn adds the percentage base instead of hard.
ViewTotals_BaseInAllIn(merged_totals, mode, ae_pct, cont_pct, perm, other) ==
    LET hard == merged_totals.hard
        base == IF mode = "HARD_ONLY" THEN hard
                ELSE [b \in Bands |-> Add(Add(hard[b], perm[b]), other[b])]
        t    == TotalsFrom(hard, base, ae_pct, cont_pct, perm, other)
    IN  [t EXCEPT !.allIn = [b \in Bands |->
                    Add(Add(Add(Add(base[b], t.ae[b]), t.cont[b]), perm[b]), other[b])]]

\* Faulty variant of ViewTotals: permits and other allowances are taken off the base.
ViewTotals_BaseMinus(merged_totals, mode, ae_pct, cont_pct, perm, other) ==
    LET hard == merged_totals.hard
        base == IF mode = "HARD_ONLY" THEN hard
                ELSE [b \in Bands |-> Add(Add(hard[b], -perm[b]), -other[b])]
    IN  TotalsFrom(hard, base, ae_pct, cont_pct, perm, other)

\* Faulty variant of ViewTotals: the percentage base is reported as the hard cost.
ViewTotals_HardIsBase(merged_totals, mode, ae_pct, cont_pct, perm, other) ==
    LET hard == merged_totals.hard
        base == IF mode = "HARD_ONLY" THEN hard
                ELSE [b \in Bands |-> Add(Add(hard[b], perm[b]), other[b])]
    IN  TotalsFrom(base, base, ae_pct, cont_pct, perm, other)

\* The body of the viewTotals memo.
ViewTotals(merged_totals, mode, ae_pct, cont_pct, perm, other) ==
    LET hard     == merged_totals.hard
        baseLow  == IF mode = "HARD_ONLY" THEN hard.low
                    ELSE Add(Add(hard.low, perm.low), other.low)
        baseMid  == IF mode = "HARD_ONLY" THEN hard.mid
                    ELSE Add(Add(hard.mid, perm.mid), other.mid)
        baseHigh == IF mode = "HARD_ONLY" THEN hard.high
                    ELSE Add(Add(hard.high, perm.high), other.high)
        ae    == [low  |-> Mul(DivHundred(ae_pct.low), baseLow),
                  mid  |-> Mul(DivHundred(ae_pct.mid), baseMid),
                  high |-> Mul(DivHundred(ae_pct.high), baseHigh)]
        cont  == [low  |-> Mul(DivHundred(cont_pct.low), baseLow),
                  mid  |-> Mul(DivHundred(cont_pct.mid), baseMid),
                  high |-> Mul(DivHundred(cont_pct.high), baseHigh)]
        allIn == [low  |-> Add(Add(Add(Add(hard.low, ae.low), cont.low), perm.low), other.low),
                  mid  |-> Add(Add(Add(Add(hard.mid, ae.mid), cont.mid), perm.mid), other.mid),
                  high |-> Add(Add(Add(Add(hard.high, ae.high), cont.high), perm.high), other.high)]
    IN  [hard |-> hard, ae |-> ae, cont |-> cont, allIn |-> allIn]

\* ------------------------------------------------------------------ state

VARIABLES
    items,          \* useState<LineItem[]>
    trades,         \* useState<TradeItem[]>
    aePct,          \* useState<Range>
    contPct,        \* useState<Range>
    permits,        \* useState<Range>
    otherAllow,     \* useState<Range>
    applyMode,      \* useState<ApplyMode>
    baseTotals,     \* useMemo
    mergedItems,    \* useMemo
    mergedTotals,   \* useMemo
    viewTotals,     \* useMemo
    pc,             \* "start" before the derived totals exist, then "rendered"
    heroURL,        \* useState<string | null>
    videoError,     \* useState<boolean>
    loadingVideo,   \* useState<boolean>
    fetchPc,        \* where the async function of the hero-video effect stands
    csv,            \* the rows of the last exported CSV
    events          \* user events handled so far

inputs == <<items, trades, aePct, contPct, permits, otherAllow, applyMode>>
memos  == <<baseTotals, mergedItems, mergedTotals, viewTotals>>
video  == <<heroURL, videoError, loadingVideo, fetchPc>>
vars   == <<inputs, memos, pc, video, csv, events>>

\* ------------------------------------------------- function-level harness

\* Longest macro-item and trade sequences the harness passes in.
MaxItems == 2
MaxTrades == 2

\* The smallest quantity at which adding 1 is lost to rounding.
BigQty == Limit

ItemPool ==
    { LineItem("conditioned", "Conditioned Addition", Num(BigQty), Range(1, 2, 3)),
      LineItem("garage", "Garage(s)", Num(3), Range(4, 2, 1)),
      LineItem("carport", "Carport", Num(-2), Range(1, 0, -5)) }

TradePool ==
    { TradeItem("roofing", "Roofing (wind-uplift rated)", Num(1), "SF", Range(1, 2, 3)),
      TradeItem("framing", "Structural Framing & Sheathing (allowance)", Num(1), "ALW", Range(1, 3, 5)),
      TradeItem("garage", "Impact Garage Doors", Num(-2), "EA", Range(7, 0, 2)) }

AePctPool == { Range(0, 0, 0), Range(50, 25, 0), Range(-50, 100, 25) }
ContPctPool == { Range(0, 0, 0), Range(25, 50, 100) }
PermitsPool == { Range(0, 0, 0), Range(1, 4, -3) }
OtherAllowPool == { Range(0, 0, 0), Range(8, 10, 15) }

\* Sequences of at most n elements of S with pairwise different keys (a key is
\* unique within its collection).
SeqsUpTo(S, n) ==
    UNION { { s \in [1..k -> S] : \A i, j \in 1..k : i # j => s[i].key # s[j].key } : k \in 0..n }

NoValue == "unset"
\* Nothing has been exported yet.
NoExport == <<>>
\* heroURL = null
NoURL == "null"

CalcInit ==
    /\ items \in SeqsUpTo(ItemPool, MaxItems)
    /\ trades \in SeqsUpTo(TradePool, MaxTrades)
    /\ aePct \in AePctPool
    /\ contPct \in ContPctPool
    /\ permits \in PermitsPool
    /\ otherAllow \in OtherAllowPool
    /\ applyMode \in ApplyModes
    /\ baseTotals = NoValue
    /\ mergedItems = NoValue
    /\ mergedTotals = NoValue
    /\ viewTotals = NoValue
    /\ pc = "start"
    /\ heroURL = NoURL
    /\ videoError = FALSE
    /\ loadingVideo = TRUE
    /\ fetchPc = "fetching"
    /\ csv = NoExport
    /\ events = 0

\* The dependency lists of the four useMemo calls.
\* Faulty variant of BaseTotalsDeps: permits is missing from the list.
BaseTotalsDeps_NoPermits == <<items, aePct, contPct, otherAllow>>
BaseTotalsDeps   == <<items, aePct, contPct, permits, otherAllow>>
MergedItemsDeps  == <<items, trades>>
MergedTotalsDeps == <<mergedItems, aePct, contPct, permits, otherAllow>>
ViewTotalsDeps   == <<mergedTotals, applyMode, aePct, contPct, permits, otherAllow>>

\* The derived totals of one render, from the (new) state: a memo is computed
\* on the first render and whenever one of its dependencies has changed.
Derive ==
    /\ baseTotals' =
         IF pc = "start" \/ BaseTotalsDeps' # BaseTotalsDeps
         THEN calcTotals(items', aePct', contPct', permits', otherAllow')
         ELSE baseTotals
    /\ mergedItems' =
         IF pc = "start" \/ MergedItemsDeps' # MergedItemsDeps
         THEN MergeItems(items', trades')
         ELSE mergedItems
    /\ mergedTotals' =
         IF pc = "start" \/ MergedTotalsDeps' # MergedTotalsDeps
         THEN calcTotals(mergedItems', aePct', contPct', permits', otherAllow')
         ELSE mergedTotals
    /\ viewTotals' =
         IF pc = "start" \/ ViewTotalsDeps' # ViewTotalsDeps
         THEN ViewTotals(mergedTotals', applyMode', aePct', contPct', permits', otherAllow')
         ELSE viewTotals

\* Faulty variant of Render: tradesToLineItems prefixes the key of the trade
\* object it is given instead of building a new object.
Render_RenamesTrades ==
    /\ pc = "start"
    /\ trades' = [i \in DOMAIN trades |-> [trades[i] EXCEPT !.key = TradeKey(@)]]
    /\ UNCHANGED <<items, aePct, contPct, permits, otherAllow, applyMode>>
    /\ Derive
    /\ pc' = "rendered"
    /\ UNCHANGED <<video, csv, events>>

\* The functions applied to the inputs drawn by CalcInit.
Render ==
    /\ pc = "start"
    /\ UNCHANGED inputs
    /\ Derive
    /\ pc' = "rendered"
    /\ UNCHANGED <<video, csv, events>>

CalcNext == Render

CalcSpec == CalcInit /\ [][CalcNext]_vars

Rendered == pc = "rendered"

\* ------------------------------------------------------------ application

\* A literal with one binary fractional digit, h / 2 (47.5 is Halves(95)).
Halves(h) == RoundRat(h * One, 2)

\* useState<LineItem[]>([...]): the macro areas.
SeedItems ==
    << LineItem("conditioned", "Conditioned Addition", Num(7029), Range(260, 300, 340)),
       LineItem("garage", "Garage(s)", Num(711),
                [low |-> Num(35), mid |-> Halves(95), high |-> Num(60)]),
       LineItem("carport", "Carport", Num(764), Range(20, 40, 60)),
       LineItem("porch", "Rear Porch", Num(1521), Range(40, 80, 120)),
       LineItem("balconies", "Balconies", Num(190), Range(40, 80, 120)) >>

\* items.find((i) => i.key === k)?.sf ?? 0
RECURSIVE FindSf(_, _, _)
FindSf(its, k, i) ==
    IF i > Len(its) THEN Num(0)
    ELSE IF its[i].key = k THEN its[i].sf
    ELSE FindSf(its, k, i + 1)

conditionedSF(its) == FindSf(its, "conditioned", 1)
balconySF(its) == FindSf(its, "balconies", 1)

\* items.reduce((sum, i) => (i.key !== "garage" ? sum + i.sf : sum + 0), 0),
\* over the first n items.
RECURSIVE roofCoverReduce(_, _)
roofCoverReduce(its, n) ==
    IF n = 0 THEN Num(0)
    ELSE IF its[n].key # "garage"
         THEN Add(roofCoverReduce(its, n - 1), its[n].sf)
         ELSE Add(roofCoverReduce(its, n - 1), Num(0))

roofCoverSF(its) == roofCoverReduce(its, Len(its))

\* useState<TradeItem[]>([...]): the initial value, evaluated with the items of
\* the first render.
SeedTrades(its) ==
    << TradeItem("impactWindows", "Impact-Rated Windows", Num(30), "EA", Range(1400, 2200, 3200)),
       TradeItem("extDoors", "Impact Exterior Doors", Num(6), "EA", Range(1800, 2600, 4000)),
       TradeItem("garageDoors", "Impact Garage Doors", Num(2), "EA", Range(2500, 4500, 6500)),
       TradeItem("roofing", "Roofing (wind-uplift rated)", roofCoverSF(its), "SF", Range(9, 13, 18)),
       TradeItem("framing", "Structural Framing & Sheathing (allowance)", Num(1), "ALW",
                 Range(180000, 240000, 320000)),
       TradeItem("stucco", "Exterior Stucco/Cladding (allowance)", Num(1), "ALW",
                 Range(35000, 55000, 90000)),
       TradeItem("insulation", "Insulation incl. attic baffles", conditionedSF(its), "SF",
                 [low |-> Halves(5), mid |-> Halves(7), high |-> Halves(9)]),
       TradeItem("drywallPaint", "Drywall + Prime/Paint", conditionedSF(its), "SF", Range(6, 8, 11)),
       TradeItem("flooring", "Flooring (material+install)", conditionedSF(its), "SF", Range(6, 9, 14)),
       TradeItem("cabsTops", "Cabinetry & Tops (allowance)", Num(1), "ALW",
                 Range(35000, 60000, 90000)),
       TradeItem("hvac", "HVAC Systems (equip+ducts)", Num(2), "EA", Range(11000, 16000, 22000)),
       TradeItem("plumbing", "Plumbing Rough + Fixtures (allowance)", Num(1), "ALW",
                 Range(50000, 80000, 120000)),
       TradeItem("electrical", "Electrical Rough + Fixtures (allowance)", Num(1), "ALW",
                 Range(45000, 75000, 110000)),
       TradeItem("waterproofing", "Balcony/Deck Waterproofing", balconySF(its), "SF",
                 Range(12, 20, 30)),
       TradeItem("hurricane", "Hurricane Straps & Hold-downs (allowance)", Num(1), "ALW",
                 Range(8000, 12000, 18000)),
       TradeItem("termite", "Termite Treatment & Soil Poison", Num(1), "ALW",
                 Range(1500, 2200, 3500)),
       TradeItem("dumpsters", "Dumpsters / Cleanup (allowance)", Num(1), "ALW",
                 Range(8000, 12000, 16000)) >>

\* The soft-cost percentages and the allowances.
SeedAePct == [low |-> Num(10), mid |-> Halves(25), high |-> Num(15)]
SeedContPct == [low |-> Num(10), mid |-> Halves(25), high |-> Num(15)]
SeedPermits == Range(2500, 4000, 10000)
SeedOtherAllow == Range(80000, 100000, 150000)

\* The component after its first render: every useState holds its initial
\* value, every useMemo has been computed from them, and the hero-video effect
\* has started its fetch.
Init ==
    /\ items = SeedItems
    /\ trades = SeedTrades(items)
    /\ aePct = SeedAePct
    /\ contPct = SeedContPct
    /\ permits = SeedPermits
    /\ otherAllow = SeedOtherAllow
    /\ applyMode = "HARD_ONLY"
    /\ baseTotals = calcTotals(items, aePct, contPct, permits, otherAllow)
    /\ mergedItems = MergeItems(items, trades)
    /\ mergedTotals = calcTotals(mergedItems, aePct, contPct, permits, otherAllow)
    /\ viewTotals = ViewTotals(mergedTotals, applyMode, aePct, contPct, permits, otherAllow)
    /\ pc = "rendered"
    /\ heroURL = NoURL
    /\ videoError = FALSE
    /\ loadingVideo = TRUE
    /\ fetchPc = "fetching"
    /\ csv = NoExport
    /\ events = 0

\* Bounds of the modelled session: the number of user events, the values a
\* user types (Number(e.target.value || 0)), and the rows and the bands the
\* user edits.
MaxEvents == 2
EditValues == {Num(0), Num(12)}
EditItemKeys == {"conditioned", "garage"}
EditTradeKeys == {"roofing"}
EditBands == {"mid"}

\* What every user event of the cost panel shares: the event is counted, the
\* component re-renders, and the hero video and the last export are untouched.
AfterEdit ==
    /\ events < MaxEvents
    /\ events' = events + 1
    /\ Derive
    /\ UNCHANGED <<pc, video, csv>>

\* The object a quantity handler puts in place of row x: { ...x, sf: v } for a
\* macro item, { ...x, qty: v } for a trade.
SetSf(x, v) == [x EXCEPT !.sf = v]
SetQty(x, v) == [x EXCEPT !.qty = v]

\* Faulty variant of EditItemSf: the map has no key test, so every row gets the
\* typed quantity.
EditItemSf_EveryRow(k, v) ==
    /\ items' = [i \in DOMAIN items |-> SetSf(items[i], v)]
    /\ UNCHANGED <<trades, aePct, contPct, permits, otherAllow, applyMode>>
    /\ AfterEdit

\* Faulty variant of EditItemSf: the handler also writes the recomputed roof
\* coverage into the roofing trade.
EditItemSf_SyncsRoofing(k, v) ==
    /\ items' = [i \in DOMAIN items |->
                   IF items[i].key = k THEN SetSf(items[i], v) ELSE items[i]]
    /\ trades' = [i \in DOMAIN trades |->
                   IF trades[i].key = "roofing"
                   THEN SetQty(trades[i], roofCoverSF(items')) ELSE trades[i]]
    /\ UNCHANGED <<aePct, contPct, permits, otherAllow, applyMode>>
    /\ AfterEdit

\* onChange of a macro item's quantity input.
EditItemSf(k, v) ==
    /\ items' = [i \in DOMAIN items |->
                   IF items[i].key = k THEN SetSf(items[i], v) ELSE items[i]]
    /\ UNCHANGED <<trades, aePct, contPct, permits, otherAllow, applyMode>>
    /\ AfterEdit

\* onChange of a macro item's unit-cost input of band b.
SetUnit(x, b, v) == [x EXCEPT !.unit = [x.unit EXCEPT ![b] = v]]
EditItemUnit(k, b, v) ==
    /\ items' = [i \in DOMAIN items |->
                   IF items[i].key = k THEN SetUnit(items[i], b, v) ELSE items[i]]
    /\ UNCHANGED <<trades, aePct, contPct, permits, otherAllow, applyMode>>
    /\ AfterEdit

\* onChange of a trade's quantity input.
EditTradeQty(k, v) ==
    /\ trades' = [i \in DOMAIN trades |->
                   IF trades[i].key = k THEN SetQty(trades[i], v) ELSE trades[i]]
    /\ UNCHANGED <<items, aePct, contPct, permits, otherAllow, applyMode>>
    /\ AfterEdit

\* onChange of a trade's unit-kind select.
SetKind(x, kind) == [x EXCEPT !.unitKind = kind]
EditTradeKind(k, kind) ==
    /\ trades' = [i \in DOMAIN trades |->
                   IF trades[i].key = k THEN SetKind(trades[i], kind) ELSE trades[i]]
    /\ UNCHANGED <<items, aePct, contPct, permits, otherAllow, applyMode>>
    /\ AfterEdit

\* onChange of a trade's unit-cost input of band b.
EditTradeUnit(k, b, v) ==
    /\ trades' = [i \in DOMAIN trades |->
                   IF trades[i].key = k THEN SetUnit(trades[i], b, v) ELSE trades[i]]
    /\ UNCHANGED <<items, aePct, contPct, permits, otherAllow, applyMode>>
    /\ AfterEdit

\* onChange of an apply-mode radio button, which fires when it becomes checked.
SetApplyMode(m) ==
    /\ m # applyMode
    /\ applyMode' = m
    /\ UNCHANGED <<items, trades, aePct, contPct, permits, otherAllow>>
    /\ AfterEdit

\* row.set({ ...row.range, [k]: v }) of the A/E % row.
EditAePct(b, v) ==
    /\ aePct' = [aePct EXCEPT ![b] = v]
    /\ UNCHANGED <<items, trades, contPct, permits, otherAllow, applyMode>>
    /\ AfterEdit

\* row.set({ ...row.range, [k]: v }) of the Contingency % row.
EditContPct(b, v) ==
    /\ contPct' = [contPct EXCEPT ![b] = v]
    /\ UNCHANGED <<items, trades, aePct, permits, otherAllow, applyMode>>
    /\ AfterEdit

\* setPermits({ ...permits, [k]: v })
EditPermits(b, v) ==
    /\ permits' = [permits EXCEPT ![b] = v]
    /\ UNCHANGED <<items, trades, aePct, contPct, otherAllow, applyMode>>
    /\ AfterEdit

\* setOtherAllow({ ...otherAllow, [k]: v })
EditOtherAllow(b, v) ==
    /\ otherAllow' = [otherAllow EXCEPT ![b] = v]
    /\ UNCHANGED <<items, trades, aePct, contPct, permits, applyMode>>
    /\ AfterEdit

\* ---- hero video

\* The files the user picks in the file input; NoFile is a cancelled dialog
\* (e.target.files?.[0] undefined).
UserFiles == {"a.mp4", "b.mp4"}
NoFile == "none"

\* URL.createObjectURL(x)
ObjectURL(x) == "blob:" \o x
FetchedBlob == "fallbackDownload"

\* Faulty variant of FetchCatch: the loading flag is cleared on the success
\* path only (no finally block).
FetchCatch_NoFinally ==
    /\ videoError' = TRUE
    /\ fetchPc' = "done"
    /\ UNCHANGED <<heroURL, loadingVideo>>

\* The catch and finally blocks of the effect's async function.
FetchCatch ==
    /\ videoError' = TRUE
    /\ loadingVideo' = FALSE
    /\ fetchPc' = "done"
    /\ UNCHANGED heroURL

\* await fetch(fallbackDownload) settles: a response that is ok, a response that
\* is not (throw), or a rejection.
FetchSettles(outcome) ==
    /\ fetchPc = "fetching"
    /\ IF outcome = "ok"
       THEN /\ fetchPc' = "blob"
            /\ UNCHANGED <<heroURL, videoError, loadingVideo>>
       ELSE FetchCatch
    /\ UNCHANGED <<inputs, memos, pc, csv, events>>

\* await resp.blob() settles: with the blob (object URL made, heroURL and
\* videoError set, then finally), or with a rejection.
BlobSettles(outcome) ==
    /\ fetchPc = "blob"
    /\ IF outcome = "ok"
       THEN /\ heroURL' = ObjectURL(FetchedBlob)
            /\ videoError' = FALSE
            /\ loadingVideo' = FALSE
            /\ fetchPc' = "done"
       ELSE FetchCatch
    /\ UNCHANGED <<inputs, memos, pc, csv, events>>

\* What the hero section renders: the video element, or the placeholder.
ShowsVideo == heroURL # NoURL /\ ~videoError

\* onError of the video element, which exists only while it is rendered.
VideoElementError ==
    /\ ShowsVideo
    /\ videoError' = TRUE
    /\ UNCHANGED <<heroURL, loadingVideo, fetchPc>>
    /\ UNCHANGED <<inputs, memos, pc, csv, events>>

\* Faulty variant of onSelectVideo: picking a file also puts the apply mode back
\* to its initial value.
onSelectVideo_ResetsMode(file) ==
    /\ events < MaxEvents
    /\ events' = events + 1
    /\ file # NoFile
    /\ heroURL' = ObjectURL(file)
    /\ videoError' = FALSE
    /\ UNCHANGED <<loadingVideo, fetchPc>>
    /\ applyMode' = "HARD_ONLY"
    /\ UNCHANGED <<items, trades, aePct, contPct, permits, otherAllow>>
    /\ Derive
    /\ UNCHANGED <<pc, csv>>

\* onSelectVideo
onSelectVideo(file) ==
    /\ events < MaxEvents
    /\ events' = events + 1
    /\ IF file = NoFile
       THEN UNCHANGED <<heroURL, videoError>>
       ELSE /\ heroURL' = ObjectURL(file)
            /\ videoError' = FALSE
    /\ UNCHANGED <<loadingVideo, fetchPc>>
    /\ UNCHANGED <<inputs, memos, pc, csv>>

\* ---- CSV export

\* A field of a row as the cells it contributes to the joined line: a number
\* or a comma-free text is one cell, a text with n commas is n + 1 cells.
Cell(x) == <<x>>
HeaderText ==
    << "Scope", "Quantity", "Unit", "Unit $ (Low)", "Unit $ (Mid)", "Unit $ (High)",
       "Cost (Low)", "Cost (Mid)", "Cost (High)" >>

\* fields.join(","), as the cells of the line.
RECURSIVE JoinComma(_)
JoinComma(fields) ==
    IF fields = <<>> THEN <<>> ELSE Head(fields) \o JoinComma(Tail(fields))

\* mergedItems.reduce((a, b) => a + b.sf, 0), over the first n items.
RECURSIVE QtySum(_, _)
QtySum(its, n) == IF n = 0 THEN Num(0) ELSE Add(QtySum(its, n - 1), its[n].sf)

ItemRow(it) ==
    JoinComma(<< Cell(it.label), Cell(it.sf), Cell("$ / sf"),
                 Cell(it.unit.low), Cell(it.unit.mid), Cell(it.unit.high),
                 Cell(Mul(it.sf, it.unit.low)), Cell(Mul(it.sf, it.unit.mid)),
                 Cell(Mul(it.sf, it.unit.high)) >>)

TradeRow(t) ==
    JoinComma(<< Cell(t.label), Cell(t.qty), Cell(t.unitKind),
                 Cell(t.unit.low), Cell(t.unit.mid), Cell(t.unit.high),
                 Cell(Mul(t.qty, t.unit.low)), Cell(Mul(t.qty, t.unit.mid)),
                 Cell(Mul(t.qty, t.unit.high)) >>)

HardRow ==
    JoinComma(<< Cell("HARD COST SUBTOTAL"), Cell(QtySum(mergedItems, Len(mergedItems))),
                 Cell(""), Cell(""), Cell(""), Cell(""),
                 Cell(mergedTotals.hard.low), Cell(mergedTotals.hard.mid),
                 Cell(mergedTotals.hard.high) >>)

SoftHdr ==
    Cell(IF applyMode = "HARD_ONLY" THEN "A/E Base: Hard only"
         ELSE "A/E Base: Hard + permits + other")

\* The rows ae, cont, permitsRow, otherRow and grand: a label, four empty
\* fields and the three values of a range.
SoftRow(label, r) ==
    JoinComma(<< Cell(label), Cell(""), Cell(""), Cell(""), Cell(""),
                 Cell(r.low), Cell(r.mid), Cell(r.high) >>)

\* The lines of the exported file, in order.
CsvLines ==
    << JoinComma(<<HeaderText>>) >>
    \o [i \in DOMAIN items |-> ItemRow(items[i])]
    \o [i \in DOMAIN trades |-> TradeRow(trades[i])]
    \o << HardRow,
          SoftHdr,
          SoftRow("Architecture & Engineering ($)", viewTotals.ae),
          SoftRow("Contingency ($)", viewTotals.cont),
          SoftRow("Permits & Plan Review (allowance)", permits),
          SoftRow("Other Soft Costs & Allowances", otherAllow),
          SoftRow("ALL-IN ESTIMATE", viewTotals.allIn) >>

\* exportCSV, the onClick of the export button.
exportCSV ==
    /\ events < MaxEvents
    /\ events' = events + 1
    /\ csv' = CsvLines
    /\ UNCHANGED <<inputs, memos, pc, video>>

\* ---- the application

Next ==
    \/ \E k \in EditItemKeys, v \in EditValues : EditItemSf(k, v)
    \/ \E k \in EditItemKeys, b \in EditBands, v \in EditValues : EditItemUnit(k, b, v)
    \/ \E k \in EditTradeKeys, v \in EditValues : EditTradeQty(k, v)
    \/ \E k \in EditTradeKeys, kind \in UnitKinds : EditTradeKind(k, kind)
    \/ \E k \in EditTradeKeys, b \in EditBands, v \in EditValues : EditTradeUnit(k, b, v)
    \/ \E m \in ApplyModes : SetApplyMode(m)
    \/ \E b \in EditBands, v \in EditValues : EditAePct(b, v)
    \/ \E b \in EditBands, v \in EditValues : EditContPct(b, v)
    \/ \E b \in EditBands, v \in EditValues : EditPermits(b, v)
    \/ \E b \in EditBands, v \in EditValues : EditOtherAllow(b, v)
    \/ exportCSV
    \/ \E outcome \in {"ok", "notOk", "rejected"} : FetchSettles(outcome)
    \/ \E outcome \in {"ok", "rejected"} : BlobSettles(outcome)
    \/ VideoElementError
    \/ \E file \in UserFiles \cup {NoFile} : onSelectVideo(file)

Spec == Init /\ [][Next]_vars

\* The steps of the effect's async function.  Both awaits are on promises of
\* the browser (fetch, Response.blob), which settle, fulfilled or rejected, and
\* whose continuations the event loop then runs; the user's events are under no
\* such obligation.
HeroFetch ==
    \/ \E outcome \in {"ok", "notOk", "rejected"} : FetchSettles(outcome)
    \/ \E outcome \in {"ok", "rejected"} : BlobSettles(outcome)

LiveSpec == Spec /\ WF_vars(HeroFetch)

\* ----------------------------------------------------------------- claims

\* sf * unit[b] of the first n items, accumulated in sequence order.
RECURSIVE BandSum(_, _, _)
BandSum(its, n, b) ==
    IF n = 0 THEN 0 ELSE Add(BandSum(its, n - 1, b), Mul(its[n].sf, its[n].unit[b]))

\* C1: for each band b independently, calcTotals returns hard[b] equal to the
\* sum over the items (in sequence order) of item.sf * item.unit[b], using only
\* band b's unit cost of each item.
C1_HardIsBandSum ==
    Rendered =>
        \A b \in Bands :
            /\ baseTotals.hard[b] = BandSum(items, Len(items), b)
            /\ mergedTotals.hard[b] = BandSum(mergedItems, Len(mergedItems), b)

\* calcTotals has run on two items whose bands cost differently.
C1_Witness ==
    /\ Rendered
    /\ Len(items) = 2
    /\ baseTotals.hard.low # baseTotals.hard.mid
    /\ baseTotals.hard.mid # baseTotals.hard.high
    /\ baseTotals.hard.low # 0

\* C2: in calcTotals, ae[b] = (aePct[b] / 100) * hard[b] and
\* cont[b] = (contPct[b] / 100) * hard[b] at every band: the percentage base is
\* hard alone, whatever the permits and other-allowance ranges are.
C2_PercentOfHard ==
    Rendered =>
        \A b \in Bands :
            /\ baseTotals.ae[b] = Mul(DivHundred(aePct[b]), baseTotals.hard[b])
            /\ baseTotals.cont[b] = Mul(DivHundred(contPct[b]), baseTotals.hard[b])
            /\ mergedTotals.ae[b] = Mul(DivHundred(aePct[b]), mergedTotals.hard[b])
            /\ mergedTotals.cont[b] = Mul(DivHundred(contPct[b]), mergedTotals.hard[b])

\* calcTotals has run with non-zero permits and other allowances and produced
\* non-zero fees.
C2_Witness ==
    /\ Rendered
    /\ permits.low # 0 /\ otherAllow.low # 0
    /\ baseTotals.ae.low # 0 /\ baseTotals.cont.low # 0

\* C3: calcTotals returns allIn[b] = hard[b] + ae[b] + cont[b] + permits[b] +
\* otherAllow[b] at every band, with hard, ae and cont those of the same result.
C3_AllInIsSum ==
    Rendered =>
        \A b \in Bands :
            /\ baseTotals.allIn[b] =
                 Add(Add(Add(Add(baseTotals.hard[b], baseTotals.ae[b]), baseTotals.cont[b]),
                         permits[b]), otherAllow[b])
            /\ mergedTotals.allIn[b] =
                 Add(Add(Add(Add(mergedTotals.hard[b], mergedTotals.ae[b]), mergedTotals.cont[b]),
                         permits[b]), otherAllow[b])

\* calcTotals has run with every one of the five terms non-zero at the mid band.
C3_Witness ==
    /\ Rendered
    /\ baseTotals.hard.mid # 0 /\ baseTotals.ae.mid # 0 /\ baseTotals.cont.mid # 0
    /\ permits.mid # 0 /\ otherAllow.mid # 0

\* The percentage base of the headline computation under the current mode.
BaseOf(b) ==
    IF applyMode = "HARD_ONLY" THEN viewTotals.hard[b]
    ELSE Add(Add(viewTotals.hard[b], permits[b]), otherAllow[b])

\* C4: in viewTotals, hard is the hard cost of the merged item set (macro items
\* followed by the converted trades); base[b] is hard[b] under HARD_ONLY and
\* hard[b] + permits[b] + otherAllow[b] under HARD_PLUS_PERMITS_OTHERS;
\* ae[b] = (aePct[b]/100) * base[b] and cont[b] = (contPct[b]/100) * base[b].
C4_ViewBase ==
    Rendered =>
        /\ mergedItems = items \o tradesToLineItems(trades)
        /\ \A b \in Bands :
            /\ viewTotals.hard[b] = BandSum(mergedItems, Len(mergedItems), b)
            /\ viewTotals.ae[b] = Mul(DivHundred(aePct[b]), BaseOf(b))
            /\ viewTotals.cont[b] = Mul(DivHundred(contPct[b]), BaseOf(b))

\* viewTotals has been computed under HARD_PLUS_PERMITS_OTHERS over macro items
\* and trades, and its A/E fee differs from the hard-only one.
C4_Witness ==
    /\ Rendered
    /\ applyMode = "HARD_PLUS_PERMITS_OTHERS"
    /\ items # <<>> /\ trades # <<>>
    /\ viewTotals.ae.low # mergedTotals.ae.low

\* C5: under both apply modes, viewTotals.allIn[b] = hard[b] + ae[b] + cont[b] +
\* permits[b] + otherAllow[b] with hard (not base) as the additive term: permits
\* and other allowances are added exactly once.
C5_ViewAllIn ==
    Rendered =>
        \A b \in Bands :
            viewTotals.allIn[b] =
                Add(Add(Add(Add(viewTotals.hard[b], viewTotals.ae[b]), viewTotals.cont[b]),
                        permits[b]), otherAllow[b])

\* viewTotals has been computed under HARD_PLUS_PERMITS_OTHERS with non-zero
\* permits and other allowances, so base and hard differ.
C5_Witness ==
    /\ Rendered
    /\ applyMode = "HARD_PLUS_PERMITS_OTHERS"
    /\ permits.high # 0 /\ otherAllow.high # 0
    /\ BaseOf("high") # viewTotals.hard.high

\* viewTotals as it is under the given apply mode, other state as it is.
ViewUnder(mode) == ViewTotals(mergedTotals, mode, aePct, contPct, permits, otherAllow)

\* C6 as stated: with non-negative permits and other allowances and the
\* percentages as the user supplied them, ae and cont under
\* HARD_PLUS_PERMITS_OTHERS are >= their values under HARD_ONLY at every band,
\* and they are equal if and only if permits and other allowances are all zero.
C6_Original ==
    Rendered =>
        LET plus    == ViewUnder("HARD_PLUS_PERMITS_OTHERS")
            only    == ViewUnder("HARD_ONLY")
            nonNeg  == \A b \in Bands : permits[b] >= 0 /\ otherAllow[b] >= 0
            allZero == \A b \in Bands : permits[b] = 0 /\ otherAllow[b] = 0
            same    == \A b \in Bands : plus.ae[b] = only.ae[b] /\ plus.cont[b] = only.cont[b]
        IN  /\ nonNeg => \A b \in Bands : plus.ae[b] >= only.ae[b] /\ plus.cont[b] >= only.cont[b]
            /\ same <=> allZero

\* C6 (amended): at a band b where permits[b] >= 0 and otherAllow[b] >= 0, ae
\* under HARD_PLUS_PERMITS_OTHERS is >= ae under HARD_ONLY provided
\* aePct[b] >= 0, and likewise cont provided contPct[b] >= 0; ae (cont) is the
\* same in both modes whenever aePct[b] (contPct[b]) is zero or permits[b] and
\* otherAllow[b] are both zero.
C6_Amended ==
    Rendered =>
        LET plus == ViewUnder("HARD_PLUS_PERMITS_OTHERS")
            only == ViewUnder("HARD_ONLY")
        IN  \A b \in Bands :
              LET nonNeg == permits[b] >= 0 /\ otherAllow[b] >= 0
                  zero   == permits[b] = 0 /\ otherAllow[b] = 0
              IN  /\ (nonNeg /\ aePct[b] >= 0) => plus.ae[b] >= only.ae[b]
                  /\ (nonNeg /\ contPct[b] >= 0) => plus.cont[b] >= only.cont[b]
                  /\ (zero \/ aePct[b] = 0) => plus.ae[b] = only.ae[b]
                  /\ (zero \/ contPct[b] = 0) => plus.cont[b] = only.cont[b]

\* The headline totals stand under HARD_PLUS_PERMITS_OTHERS with positive
\* permits, other allowances and percentages, and both fees exceed what
\* HARD_ONLY gives.
C6_Witness ==
    /\ Rendered
    /\ applyMode = "HARD_PLUS_PERMITS_OTHERS"
    /\ permits.low > 0 /\ otherAllow.low > 0 /\ aePct.low > 0 /\ contPct.low > 0
    /\ viewTotals.ae.low > ViewUnder("HARD_ONLY").ae.low
    /\ viewTotals.cont.low > ViewUnder("HARD_ONLY").cont.low

\* C7 as stated: calcTotals(A concatenated with B).hard[b] =
\* calcTotals(A).hard[b] + calcTotals(B).hard[b] at every band, with A the
\* macro items and B the converted trades.
C7_Additivity ==
    Rendered =>
        \A b \in Bands :
            mergedTotals.hard[b] =
                Add(baseTotals.hard[b],
                    calcTotals(tradesToLineItems(trades), aePct, contPct, permits, otherAllow).hard[b])

\* C8 as stated: for an empty item sequence hard, ae, cont and allIn are zero
\* at every band, for any aePct, contPct, permits and otherAllow.
C8_Original ==
    (Rendered /\ items = <<>>) =>
        \A b \in Bands :
            /\ baseTotals.hard[b] = 0 /\ baseTotals.ae[b] = 0
            /\ baseTotals.cont[b] = 0 /\ baseTotals.allIn[b] = 0

\* C8 (amended): for an empty item sequence hard, ae and cont are zero at every
\* band for any aePct, contPct, permits and otherAllow, and
\* allIn[b] = permits[b] + otherAllow[b].
C8_Amended ==
    (Rendered /\ items = <<>>) =>
        \A b \in Bands :
            /\ baseTotals.hard[b] = 0 /\ baseTotals.ae[b] = 0 /\ baseTotals.cont[b] = 0
            /\ baseTotals.allIn[b] = Add(permits[b], otherAllow[b])

\* calcTotals has run on no items with non-zero percentages, permits and other
\* allowances.
C8_Witness ==
    /\ Rendered
    /\ items = <<>>
    /\ aePct.low # 0 /\ contPct.low # 0 /\ permits.low # 0 /\ otherAllow.low # 0
    /\ baseTotals.allIn.low # 0

\* C9: calcTotals on an empty item sequence with aePct, contPct, permits and
\* otherAllow all zero returns zero in every field at every band.
C9_ZeroIdentity ==
    (/\ Rendered
     /\ items = <<>>
     /\ aePct = ZeroRange /\ contPct = ZeroRange
     /\ permits = ZeroRange /\ otherAllow = ZeroRange) =>
        \A b \in Bands :
            /\ baseTotals.hard[b] = 0 /\ baseTotals.ae[b] = 0
            /\ baseTotals.cont[b] = 0 /\ baseTotals.allIn[b] = 0

\* calcTotals has run on no items with all-zero modifier ranges.
C9_Witness ==
    /\ Rendered
    /\ items = <<>>
    /\ aePct = ZeroRange /\ contPct = ZeroRange
    /\ permits = ZeroRange /\ otherAllow = ZeroRange
    /\ baseTotals.allIn = ZeroRange

\* The trades with their unit kinds replaced by f[i].
WithKinds(ts, f) == [i \in 1..Len(ts) |-> [ts[i] EXCEPT !.unitKind = f[i]]]

\* C10: tradesToLineItems returns a sequence of the same length and order whose
\* i-th line item has sf = the i-th trade's qty, the same unit range and label,
\* and key "trade:" followed by the trade's key (so different from the
\* unprefixed key); the result, and the totals over it, do not depend on
\* unitKind.
C10_Normalized ==
    Rendered =>
        LET conv == SubSeq(mergedItems, Len(items) + 1, Len(mergedItems))
        IN  /\ Len(conv) = Len(trades)
            /\ \A i \in 1..Len(trades) :
                /\ conv[i].sf = trades[i].qty
                /\ conv[i].unit = trades[i].unit
                /\ conv[i].label = trades[i].label
                /\ conv[i].key = "trade:" \o trades[i].key
                /\ conv[i].key # trades[i].key
                /\ \A j \in 1..Len(items) :
                     items[j].key = trades[i].key => conv[i].key # items[j].key
                /\ DOMAIN conv[i] = {"key", "label", "sf", "unit"}
            /\ \A f \in [1..Len(trades) -> UnitKinds] :
                /\ tradesToLineItems(WithKinds(trades, f)) = conv
                /\ calcTotals(MergeItems(items, WithKinds(trades, f)),
                              aePct, contPct, permits, otherAllow) = mergedTotals

\* Two trades of different unit kinds have been converted, one of them with the
\* key of a macro item.
C10_Witness ==
    /\ Rendered
    /\ Len(trades) = 2
    /\ trades[1].unitKind # trades[2].unitKind
    /\ \E j \in 1..Len(items) : items[j].key = trades[1].key
    /\ Len(mergedItems) = Len(items) + 2

\* C11: in every reachable state the merged list is the macro items followed by
\* the converted trades: its length is the number of macro items plus the
\* number of trades, position i holds macro item i, and position
\* Len(items) + j holds the conversion of trade j.
C11_MergedIsConcatenation ==
    /\ Len(mergedItems) = Len(items) + Len(trades)
    /\ \A i \in 1..Len(items) : mergedItems[i] = items[i]
    /\ \A j \in 1..Len(trades) :
          mergedItems[Len(items) + j] =
              [key |-> TradeKey(trades[j].key), label |-> trades[j].label,
               sf |-> trades[j].qty, unit |-> trades[j].unit]

\* A macro quantity and a trade quantity have both been edited, and the merged
\* list shows both edits in place.
C11_Witness ==
    /\ items[1].sf = Num(12)
    /\ \E j \in 1..Len(trades) :
          /\ trades[j].key = "roofing"
          /\ trades[j].qty = Num(0)
          /\ mergedItems[Len(items) + j].sf = Num(0)
    /\ mergedItems[1].sf = Num(12)

\* A value of the number type, and a result of calcTotals: four ranges of numbers.
IsNumber(x) == x \in Int
IsTotals(t) ==
    /\ DOMAIN t = {"hard", "ae", "cont", "allIn"}
    /\ \A f \in DOMAIN t : DOMAIN t[f] = Bands /\ \A b \in Bands : IsNumber(t[f][b])

\* C12: calcTotals validates nothing and has no error outcome: for all inputs,
\* negative quantities and unit costs and ranges with low > high included, it
\* returns four ranges of numbers computed from the values as given; hard[b] is
\* the accumulation of sf * unit[b] with nothing clamped and no band reordered,
\* so a lone item contributes exactly sf * unit[b], negative when sf < 0 and
\* unit[b] > 0.
C12_NoValidation ==
    Rendered =>
        /\ IsTotals(baseTotals)
        /\ IsTotals(mergedTotals)
        /\ \A b \in Bands :
              /\ baseTotals.hard[b] = BandSum(items, Len(items), b)
              /\ baseTotals.ae[b] = Mul(DivHundred(aePct[b]), baseTotals.hard[b])
              /\ baseTotals.cont[b] = Mul(DivHundred(contPct[b]), baseTotals.hard[b])
        /\ Len(items) = 1 =>
              \A b \in Bands :
                  /\ baseTotals.hard[b] = Mul(items[1].sf, items[1].unit[b])
                  /\ (items[1].sf < 0 /\ items[1].unit[b] > 0) => baseTotals.hard[b] < 0

\* calcTotals has run on one item of negative quantity and on a percentage
\* range with low > high: hard.low is negative, and the fees are not reordered.
C12_Witness ==
    /\ Rendered
    /\ Len(items) = 1
    /\ items[1].sf < 0
    /\ items[1].unit.low > items[1].unit.high
    /\ baseTotals.hard.low < 0
    /\ baseTotals.hard.high > 0
    /\ aePct.low > aePct.high
    /\ baseTotals.ae.low < 0

C14_VideoIsolated ==
    [][video' # video => (inputs' = inputs /\ memos' = memos)]_vars

\* After a switch of the apply mode, the user has picked a file and the fetch
\* has then failed: the video events happened between and after cost edits.
C14_Witness ==
    /\ applyMode = "HARD_PLUS_PERMITS_OTHERS"
    /\ heroURL = ObjectURL("a.mp4")
    /\ videoError
    /\ fetchPc = "done"
    /\ viewTotals = ViewTotals(mergedTotals, applyMode, aePct, contPct, permits, otherAllow)

\* C15: the derived totals are never stale: in every reachable state, after any
\* edits, baseTotals is calcTotals of the current macro items and modifiers,
\* mergedTotals is calcTotals of the current merged items, and viewTotals is
\* the apply-mode-aware computation on the current merged hard cost, apply
\* mode and modifiers.
C15_NeverStale ==
    /\ baseTotals = calcTotals(items, aePct, contPct, permits, otherAllow)
    /\ mergedTotals = calcTotals(MergeItems(items, trades), aePct, contPct, permits, otherAllow)
    /\ viewTotals = ViewTotals(calcTotals(MergeItems(items, trades),
                                          aePct, contPct, permits, otherAllow),
                               applyMode, aePct, contPct, permits, otherAllow)

\* Two edits have been made, one of a macro quantity and one of the permits,
\* and the totals are no longer those of the first render.
C15_Witness ==
    /\ events = 2
    /\ items[1].sf = Num(12)
    /\ permits.mid = Num(12)
    /\ baseTotals.hard.mid = BandSum(items, Len(items), "mid")
    /\ baseTotals.allIn.mid # calcTotals(SeedItems, SeedAePct, SeedContPct,
                                         SeedPermits, SeedOtherAllow).allIn.mid

\* The editable numeric fields of a state, each as <<where, value>>.
NumFields(its, ts, ae, ct, pm, ot) ==
    {<<"items", i, "sf", its[i].sf>> : i \in DOMAIN its}
    \cup {<<"items", i, b, its[i].unit[b]>> : i \in DOMAIN its, b \in Bands}
    \cup {<<"trades", j, "qty", ts[j].qty>> : j \in DOMAIN ts}
    \cup {<<"trades", j, b, ts[j].unit[b]>> : j \in DOMAIN ts, b \in Bands}
    \cup {<<"aePct", 0, b, ae[b]>> : b \in Bands}
    \cup {<<"contPct", 0, b, ct[b]>> : b \in Bands}
    \cup {<<"permits", 0, b, pm[b]>> : b \in Bands}
    \cup {<<"otherAllow", 0, b, ot[b]>> : b \in Bands}

\* The editable choice fields of a state: the unit kinds and the apply mode.
ChoiceFields(ts, mode) ==
    {<<"trades", j, ts[j].unitKind>> : j \in DOMAIN ts} \cup {<<"applyMode", 0, mode>>}

\* The keys and labels of a collection, in order.
KeysAndLabels(rows) == [i \in DOMAIN rows |-> <<rows[i].key, rows[i].label>>]

\* C16: an edit is atomic on one field: every step leaves the two collections'
\* lengths, order, keys and labels as they were (no line item is created or
\* destroyed), and changes at most one field among the quantities, unit kinds
\* and unit-cost bands of the items and trades, the bands of aePct, contPct,
\* permits and otherAllow, and applyMode; a changed number is the typed value.
C16_AtomicEdit ==
    [][LET nums == NumFields(items', trades', aePct', contPct', permits', otherAllow')
                   \ NumFields(items, trades, aePct, contPct, permits, otherAllow)
           choices == ChoiceFields(trades', applyMode') \ ChoiceFields(trades, applyMode)
       IN  /\ KeysAndLabels(items') = KeysAndLabels(items)
           /\ KeysAndLabels(trades') = KeysAndLabels(trades)
           /\ Cardinality(nums) + Cardinality(choices) <= 1
           /\ \A f \in nums : f[4] \in EditValues]_vars

\* Two edits have been made, of a macro quantity and of a trade's unit cost,
\* and both collections are as long as at the start.
C16_Witness ==
    /\ events = 2
    /\ items[1].sf = Num(0)
    /\ \E j \in DOMAIN trades : trades[j].key = "roofing" /\ trades[j].unit.mid = Num(12)
    /\ Len(items) = Len(SeedItems)
    /\ Len(trades) = Len(SeedTrades(SeedItems))
    /\ items[2] = SeedItems[2]

\* The quantity of the trade with key k.
TradeQty(ts, k) == ts[CHOOSE j \in DOMAIN ts : ts[j].key = k].qty

\* C17 as stated: in every reachable state the quantity of the roofing trade is
\* the sum of the quantities of the macro items other than the garage.
C17_Original == TradeQty(trades, "roofing") = roofCoverSF(items)

\* C17 amended: the roofing quantity starts as the sum of the initial macro
\* quantities other than the garage, and from then on a step changes it only
\* by an edit of the trades (the macro items unchanged) that sets it to the
\* typed value: no edit of a macro quantity changes it.
C17_Amended ==
    /\ TradeQty(trades, "roofing") = roofCoverSF(items)
    /\ [][TradeQty(trades', "roofing") # TradeQty(trades, "roofing") =>
             /\ items' = items
             /\ TradeQty(trades', "roofing") \in EditValues]_vars

\* The quantity of a macro item other than the garage has been edited, and the
\* roofing quantity is still the sum of the initial quantities, not of the
\* current ones.
C17_Witness ==
    /\ items[1].key = "conditioned"
    /\ items[1].sf = Num(12)
    /\ TradeQty(trades, "roofing") = roofCoverSF(SeedItems)
    /\ TradeQty(trades, "roofing") # roofCoverSF(items)

\* C18: the initial fetch eventually finishes, and once it has finished
\* loadingVideo is false, whether it succeeded or failed; a step in which the
\* fetch fails (a response that is not ok, a rejected fetch, a rejected blob)
\* or the video element reports an error ends with videoError true and the
\* placeholder rendered in place of the video element, and the component goes
\* on (the failure is caught, the cost state is untouched).
C18_VideoFallback ==
    /\ <>(fetchPc = "done")
    /\ [](fetchPc = "done" => ~loadingVideo)
    /\ [][(\/ \E outcome \in {"notOk", "rejected"} : FetchSettles(outcome)
           \/ BlobSettles("rejected")
           \/ VideoElementError)
          => (videoError' /\ ~ShowsVideo' /\ pc' = "rendered" /\ memos' = memos)]_vars

\* The fetch has failed with nothing selected: the loading flag is down, the
\* error flag is up, and the placeholder is shown.
C18_Witness ==
    /\ fetchPc = "done"
    /\ heroURL = NoURL
    /\ videoError
    /\ ~loadingVideo
    /\ ~ShowsVideo

\* C19: in every reachable state with apply mode HARD_ONLY, viewTotals equals
\* mergedTotals in every field, that is calcTotals of the merged list with the
\* current modifiers; in both modes viewTotals.hard is mergedTotals.hard; and a
\* step that changes the apply mode leaves the hard-cost subtotal, baseTotals
\* and mergedTotals unchanged.
C19_HardOnlyIsMerged ==
    /\ [](applyMode = "HARD_ONLY" =>
             /\ viewTotals = mergedTotals
             /\ viewTotals = calcTotals(mergedItems, aePct, contPct, permits, otherAllow))
    /\ [](viewTotals.hard = mergedTotals.hard)
    /\ [][applyMode' # applyMode =>
             /\ viewTotals'.hard = viewTotals.hard
             /\ baseTotals' = baseTotals
             /\ mergedTotals' = mergedTotals]_vars

\* The apply mode has been switched away from HARD_ONLY after an edit: the fees
\* of viewTotals differ from those of mergedTotals, the hard cost does not.
C19_Witness ==
    /\ applyMode = "HARD_PLUS_PERMITS_OTHERS"
    /\ events = 2
    /\ viewTotals.ae # mergedTotals.ae
    /\ viewTotals.allIn # mergedTotals.allIn
    /\ viewTotals.hard = mergedTotals.hard

\* The lines of an exported file that are summary rows: the hard-cost subtotal
\* and, after the "A/E Base" heading, the A/E, contingency, permits, other
\* allowances and all-in rows.
SummaryRows(lines) ==
    {Len(lines) - 6} \cup ((Len(lines) - 4)..Len(lines))

\* C20: in an exported file every summary row has as many comma-separated
\* fields as the header (nine) and carries its low, mid and high values in the
\* 7th, 8th and 9th field, the positions of Cost (Low), Cost (Mid) and
\* Cost (High) in the line-item rows.
C20_SummaryRowsAligned ==
    csv # NoExport =>
        \A r \in SummaryRows(csv) :
            /\ Len(csv[r]) = Len(csv[1])
            /\ \A p \in 7..9 : IsNumber(csv[r][p])

\* The object URLs of the files the user can pick
UserURLs == { ObjectURL(file) : file \in UserFiles }

\* C21: once the hero shows a file the user selected (heroURL is the URL made
\* for that file and videoError is false), every step other than another
\* selection or an error of the video element keeps heroURL and videoError as
\* they are; in particular the steps of the still-pending initial fetch, on
\* success and on failure alike.
C21_UserVideoKept ==
    [][ ( /\ heroURL \in UserURLs
          /\ ~videoError
          /\ ~(\E file \in UserFiles \cup {NoFile} : onSelectVideo(file))
          /\ ~VideoElementError )
        => (heroURL' = heroURL /\ videoError' = videoError) ]_vars

====
